---- MODULE Spec2Model ----
(***************************************************************************)
(* Model of the truncated-aptitle custom element (src/lib/truncaptitle.js). *)
(* The file holds two variants of the element:                             *)
(*   - the autonomous element, class at lines 16-160, placeholder "...";    *)
(*   - the customized built-in span, class at lines 178-308, placeholder    *)
(*     U+2026 (horizontal ellipsis).                                        *)
(* A JavaScript string is a sequence of one-character strings.  The four   *)
(* non-ASCII characters of the source are written by their code points:    *)
(* "U+2026" is the ellipsis, "U+2011", "U+2013", "U+2014" are the dashes of  *)
(* the splitter.  Each is ONE element of a sequence, as it is one UTF-16    *)
(* code unit of a JavaScript string.                                       *)
(***************************************************************************)
EXTENDS Integers, Sequences, FiniteSets, TLC

(***************************************************************************)
(* JavaScript values                                                       *)
(***************************************************************************)
Null == [t |-> "null"]
Undefined == [t |-> "undefined"]
NaN == [t |-> "NaN"]
TypeError == [t |-> "TypeError"]
Str(s) == [t |-> "string", v |-> s]
Num(n) == [t |-> "number", v |-> n]

Min(a, b) == IF a < b THEN a ELSE b
Max(a, b) == IF a > b THEN a ELSE b

\* ToBoolean, as used by `!x` and `if (x)`
ToBoolean(x) ==
    CASE x.t = "string" -> Len(x.v) > 0
      [] x.t = "number" -> x.v # 0
      [] OTHER -> FALSE

Digits == <<"0", "1", "2", "3", "4", "5", "6", "7", "8", "9">>
DigitChars == {Digits[i] : i \in 1..10}
WhiteSpace == {" ", "\t", "\n"}

IsDigit(c) == c \in DigitChars
DigitValue(c) == (CHOOSE i \in 1..10 : Digits[i] = c) - 1

RECURSIVE StripLeft(_)
StripLeft(s) ==
    IF Len(s) > 0 /\ Head(s) \in WhiteSpace THEN StripLeft(Tail(s)) ELSE s

RECURSIVE StripRight(_)
StripRight(s) ==
    IF Len(s) > 0 /\ s[Len(s)] \in WhiteSpace
    THEN StripRight(SubSeq(s, 1, Len(s) - 1)) ELSE s

RECURSIVE DecimalValue(_)
DecimalValue(s) ==
    IF Len(s) = 0 THEN 0
    ELSE 10 * DecimalValue(SubSeq(s, 1, Len(s) - 1)) + DigitValue(s[Len(s)])

\* StringToNumber on the decimal literals and non-numeric strings the model
\* draws: white space is trimmed, the empty string is 0, a run of decimal
\* digits is its value, anything else is NaN.
StringToNumber(s) ==
    LET t == StripRight(StripLeft(s))
    IN  IF \A i \in 1..Len(t) : IsDigit(t[i]) THEN Num(DecimalValue(t)) ELSE NaN

\* ToNumber, the conversion applied to `chars` by `<` and by `-`
ToNumber(x) ==
    CASE x.t = "string" -> StringToNumber(x.v)
      [] x.t = "number" -> x
      [] x.t = "null" -> Num(0)
      [] OTHER -> NaN

\* a < b on numbers: false when either side is NaN
LessThan(a, b) == a.t = "number" /\ b.t = "number" /\ a.v < b.v

\* a - k
Minus(a, k) == IF a.t = "number" THEN Num(a.v - k) ELSE NaN

\* ToIntegerOrInfinity, applied to the arguments of substr and slice
ToIntegerOrInfinity(a) == IF a.t = "number" THEN a.v ELSE 0

(***************************************************************************)
(* String.prototype methods the element uses                               *)
(***************************************************************************)
LowerAlpha == <<
    "a","b","c","d","e","f","g","h","i","j","k","l","m","n","o","p","q","r",
    "s","t","u","v","w","x","y","z" >>
UpperAlpha == <<
    "A","B","C","D","E","F","G","H","I","J","K","L","M","N","O","P","Q","R",
    "S","T","U","V","W","X","Y","Z" >>

LowerLetters == {LowerAlpha[i] : i \in 1..26}
UpperLetters == {UpperAlpha[i] : i \in 1..26}
LowerOf == [c \in UpperLetters |-> LowerAlpha[CHOOSE i \in 1..26 : UpperAlpha[i] = c]]
UpperOf == [c \in LowerLetters |-> UpperAlpha[CHOOSE i \in 1..26 : LowerAlpha[i] = c]]

toLowerCaseChar(c) == IF c \in UpperLetters THEN LowerOf[c] ELSE c
toUpperCaseChar(c) == IF c \in LowerLetters THEN UpperOf[c] ELSE c

toLowerCase(s) == [i \in 1..Len(s) |-> toLowerCaseChar(s[i])]

\* str.substr(start, length) with both arguments already integers
substr(s, start, length) ==
    LET size == Len(s)
        from == IF start < 0 THEN Max(size + start, 0) ELSE Min(start, size)
        len == Min(Max(length, 0), size - from)
    IN  SubSeq(s, from + 1, from + len)

\* str.slice(start, end) with both arguments already integers
slice(s, start, end) ==
    LET size == Len(s)
        from == IF start < 0 THEN Max(size + start, 0) ELSE Min(start, size)
        to == IF end < 0 THEN Max(size + end, 0) ELSE Min(end, size)
    IN  SubSeq(s, from + 1, to)

\* str.lastIndexOf(c) for a one-character search string: 0-based, -1 if absent
lastIndexOf(s, c) ==
    IF \E i \in 1..Len(s) : s[i] = c
    THEN (CHOOSE i \in 1..Len(s) :
              s[i] = c /\ \A j \in (i + 1)..Len(s) : s[j] # c) - 1
    ELSE -1

\* str.includes(sub)
includes(s, sub) ==
    \E i \in 0..(Len(s) - Len(sub)) : SubSeq(s, i + 1, i + Len(sub)) = sub

\* array.includes(x)
arrayIncludes(a, x) == \E i \in 1..Len(a) : a[i] = x

RECURSIVE join(_)
join(parts) == IF Len(parts) = 0 THEN <<>> ELSE Head(parts) \o join(Tail(parts))

\* str.toUpperCase(): one character for one, except where Unicode's special
\* casing gives several: the sharp s (U+00DF) has the upper case "SS", and
\* its lower case is itself
SharpS == "U+00DF"
toUpperCase(s) ==
    join([i \in 1..Len(s) |->
             IF s[i] = SharpS THEN <<"S", "S">> ELSE <<toUpperCaseChar(s[i])>>])


(***************************************************************************)
(* Span variant (class at lines 178-308): truncation and AP title case     *)
(***************************************************************************)
placeholder == <<"U+2026">>

\* truncateAfterWord cutting at the limit itself instead of after a word
truncateAfterWord_hardCut(str, chars) ==
    IF ~ToBoolean(chars) THEN str
    ELSE IF str.t # "string" THEN TypeError
    ELSE IF LessThan(Num(Len(str.v)), ToNumber(chars)) THEN str
    ELSE Str(substr(str.v, 0, ToIntegerOrInfinity(ToNumber(chars))) \o placeholder)

\* truncateAfterWord with the three characters of "..." reserved for the
\* one-character placeholder (the arithmetic of the autonomous variant)
truncateAfterWord_reserve3(str, chars) ==
    IF ~ToBoolean(chars) THEN str
    ELSE IF str.t # "string" THEN TypeError
    ELSE IF LessThan(Num(Len(str.v)), ToNumber(chars)) THEN str
    ELSE LET inner == substr(str.v, 0,
                 ToIntegerOrInfinity(Minus(ToNumber(chars), 3)))
         IN  Str(substr(str.v, 0, lastIndexOf(inner, " ")) \o placeholder)

\* truncateAfterWord that also leaves a text of exactly the limit's length
\* unchanged (<= for <)
truncateAfterWord_lessOrEqual(str, chars) ==
    IF ~ToBoolean(chars) THEN str
    ELSE IF str.t # "string" THEN TypeError
    ELSE IF ~LessThan(ToNumber(chars), Num(Len(str.v))) THEN str
    ELSE LET inner == substr(str.v, 0,
                 ToIntegerOrInfinity(Minus(ToNumber(chars), Len(placeholder))))
         IN  Str(substr(str.v, 0, lastIndexOf(inner, " ")) \o placeholder)

\* truncateAfterWord that cuts inside the word when the characters it may
\* keep hold no space
truncateAfterWord_midWord(str, chars) ==
    IF ~ToBoolean(chars) THEN str
    ELSE IF str.t # "string" THEN TypeError
    ELSE IF LessThan(Num(Len(str.v)), ToNumber(chars)) THEN str
    ELSE LET inner == substr(str.v, 0,
                 ToIntegerOrInfinity(Minus(ToNumber(chars), Len(placeholder))))
         IN  IF lastIndexOf(inner, " ") = -1 THEN Str(inner \o placeholder)
             ELSE Str(substr(str.v, 0, lastIndexOf(inner, " ")) \o placeholder)

\* truncateAfterWord (str, chars, placeholder = U+2026), lines 274-277.
\* `str.length` on undefined throws.
truncateAfterWord_span(str, chars) ==
    IF ~ToBoolean(chars) THEN str
    ELSE IF str.t # "string" THEN TypeError
    ELSE IF LessThan(Num(Len(str.v)), ToNumber(chars)) THEN str
    ELSE LET inner == substr(str.v, 0,
                 ToIntegerOrInfinity(Minus(ToNumber(chars), Len(placeholder))))
         IN  Str(substr(str.v, 0, lastIndexOf(inner, " ")) \o placeholder)

\* capitalize that turns a first letter already in upper case to lower case
capitalize_toggle(value) ==
    IF Len(value) = 0 THEN <<>>
    ELSE IF value[1] \in UpperLetters
         THEN <<toLowerCaseChar(value[1])>> \o SubSeq(value, 2, Len(value))
         ELSE <<toUpperCaseChar(value[1])>> \o SubSeq(value, 2, Len(value))

\* capitalize(value), lines 279-281
capitalize(value) ==
    IF Len(value) = 0 THEN <<>>
    ELSE toUpperCase(<<value[1]>>) \o slice(value, 1, Len(value))

smallwords == <<
    "a"," ","a","n"," ","a","n","d"," ","a","t"," ","b","u","t"," ","b","y",
    " ","f","o","r"," ","i","n"," ","n","o","r"," ","o","f"," ","o","n"," ",
    "o","r"," ","s","o"," ","t","h","e"," ","t","o"," ","u","p"," ","y","e",
    "t" >>

\* smallwords.split(' ')
defaults == <<
    <<"a">>, <<"a","n">>, <<"a","n","d">>, <<"a","t">>, <<"b","u","t">>,
    <<"b","y">>, <<"f","o","r">>, <<"i","n">>, <<"n","o","r">>, <<"o","f">>,
    <<"o","n">>, <<"o","r">>, <<"s","o">>, <<"t","h","e">>, <<"t","o">>,
    <<"u","p">>, <<"y","e","t">> >>

\* const stop = smallwords || defaults;  smallwords is a non-empty string, so
\* stop is the STRING and stop.includes is String.prototype.includes.
stopIncludes(lower) ==
    IF ToBoolean(Str(smallwords)) THEN includes(smallwords, lower)
    ELSE arrayIncludes(defaults, lower)

\* the one-character alternatives of the splitter /(\s+|[-...,:;!?()])/
SplitterPunctuation ==
    {"-", "U+2011", "U+2013", "U+2014", ",", ":", ";", "!", "?", "(", ")"}

\* a match of the splitter starts at i: a punctuation character, or the first
\* character of a white-space run (\s+ is greedy, so a run is one match)
SeparatorStart(s, i) ==
    \/ s[i] \in SplitterPunctuation
    \/ s[i] \in WhiteSpace /\ (i = 1 \/ s[i - 1] \notin WhiteSpace)

\* the last position of the match that starts at i
SeparatorEnd(s, i) ==
    IF s[i] \in SplitterPunctuation THEN i
    ELSE CHOOSE e \in i..Len(s) :
             /\ \A q \in i..e : s[q] \in WhiteSpace
             /\ e = Len(s) \/ s[e + 1] \notin WhiteSpace

\* value.split(splitter) with the capturing group: the words at the even
\* 0-based indices, the matched separators at the odd ones; a separator at
\* either end of the text leaves an empty word there
split(s) ==
    LET starts == {i \in 1..Len(s) : SeparatorStart(s, i)}
        count == Cardinality(starts)
        \* the n-th match, n in 1..count; match 0 ends at 0 and match
        \* count + 1 starts after the text
        startOf(n) == IF n > count THEN Len(s) + 1
                      ELSE CHOOSE i \in starts :
                               Cardinality({q \in starts : q <= i}) = n
        endOf(n) == IF n = 0 THEN 0 ELSE SeparatorEnd(s, startOf(n))
    IN  [k \in 1..(2 * count + 1) |->
            IF k % 2 = 0
            THEN SubSeq(s, startOf(k \div 2), endOf(k \div 2))
            ELSE SubSeq(s, endOf((k - 1) \div 2) + 1, startOf((k + 1) \div 2) - 1)]

\* the callback of .map writing one space for every separator
mapWord_oneSpace(word, index, all) ==
    IF index % 2 = 1 THEN <<" ">>
    ELSE LET lower == toLowerCase(word)
         IN  IF index # 0 /\ index # Len(all) - 1 /\ stopIncludes(lower)
             THEN lower
             ELSE capitalize(word)

\* the callback of .map, lines 294-305; index is 0-based as in the source
mapWord_span(word, index, all) ==
    IF index % 2 = 1 THEN word
    ELSE LET lower == toLowerCase(word)
         IN  IF index # 0 /\ index # Len(all) - 1 /\ stopIncludes(lower)
             THEN lower
             ELSE capitalize(word)

\* apStyleTitleCase(value), lines 283-307
apStyleTitleCase_span(value) ==
    IF ~ToBoolean(value) THEN Str(<<>>)
    ELSE CHOOSE result \in
             {Str(join([k \in 1..Len(all) |-> mapWord_span(all[k], k - 1, all)])) :
                  all \in {split(value.v)}} : TRUE

(***************************************************************************)
(* Autonomous variant (class at lines 16-160)                              *)
(***************************************************************************)
\* truncateAfterWord (str, chars), lines 129-132
truncateAfterWord_auto(str, chars) ==
    IF ~ToBoolean(chars) \/ ~ToBoolean(str) THEN str
    ELSE IF LessThan(Num(Len(str.v)), ToNumber(chars)) THEN str
    ELSE LET inner == substr(str.v, 0,
                 ToIntegerOrInfinity(Minus(ToNumber(chars), 3)))
         IN  Str(substr(str.v, 0, lastIndexOf(inner, " ")) \o <<".", ".", ".">>)

lowercaseWords == defaults

\* \w of the regular expression /\w+/g
IsWordChar(c) == c \in LowerLetters \cup UpperLetters \cup DigitChars \cup {"_"}

\* the replacer function, lines 152-158; index is the 0-based match offset
\* and str the argument of apStyleTitleCase (not lowercased)
replaceWord_auto(word, index, str) ==
    IF index = 0 \/ index + Len(word) = Len(str) THEN capitalize(word)
    ELSE IF arrayIncludes(lowercaseWords, word) THEN word
    ELSE capitalize(word)

\* the last position of the run that starts at i and stays inside \w
\* (inWord = TRUE) or outside it (inWord = FALSE)
RECURSIVE RunEnd(_, _, _)
RunEnd(low, i, inWord) ==
    IF i < Len(low) /\ IsWordChar(low[i + 1]) = inWord
    THEN RunEnd(low, i + 1, inWord) ELSE i

\* low.replace(/\w+/g, replacer) from position i on: each \w+ match is
\* replaced by what the replacer returns for it, the text between is kept
RECURSIVE ReplaceFrom(_, _, _)
ReplaceFrom(low, i, str) ==
    IF i > Len(low) THEN <<>>
    ELSE LET e == RunEnd(low, i, IsWordChar(low[i]))
             run == SubSeq(low, i, e)
         IN  (IF IsWordChar(low[i]) THEN replaceWord_auto(run, i - 1, str) ELSE run)
                 \o ReplaceFrom(low, e + 1, str)

\* apStyleTitleCase(str), lines 147-159
apStyleTitleCase_auto(str) ==
    IF ~ToBoolean(str) THEN Str(<<>>)
    ELSE Str(ReplaceFrom(toLowerCase(str.v), 1, str.v))

Headline == <<
    "e","v","e","r","y","t","h","i","n","g"," ","y","o","u"," ","n","e","e",
    "d"," ","t","o"," ","k","n","o","w"," ","a","b","o","u","t"," ","h","e",
    "a","d","l","i","n","e"," ","s","t","y","l","e"," ","a","n","d"," ","c",
    "a","p","i","t","a","l","i","z","a","t","i","o","n" >>

(***************************************************************************)
(* Bounds and input sets                                                   *)
(***************************************************************************)
MaxLen == 4
MaxPending == 1
MaxFnLen == 5
MaxLimit == 6

Alphabet == {"a", " "}

RECURSIVE SeqsUpTo(_, _)
SeqsUpTo(S, n) ==
    IF n = 0 THEN {<<>>}
    ELSE LET shorter == SeqsUpTo(S, n - 1)
         IN  shorter \cup {Append(q, c) : q \in {r \in shorter : Len(r) = n - 1}, c \in S}

\* texts an author or a script puts into the element
Texts == SeqsUpTo(Alphabet, MaxLen)

\* texts a script writes into the element later: the empty text, a text of
\* fewer than three characters and a longer one
EditTexts == {<<>>, <<"a">>, <<"a", " ", "a", "a">>}

\* values given to the textlength attribute: the empty string, a limit and a
\* string that is not a number
TextLengths == {Str(<<>>), Str(<<"4">>), Str(<<"x">>)}

\* arguments of the functions called on their own: texts with a stop-word
\* ("a"), words that are none ("i", "x", "ax"), an upper-case letter, a space
\* and a punctuation mark of the splitter; limits as the attribute encodes them
FnAlphabet == {"a", "i", "x", "A", " ", "?"}
FnTexts == SeqsUpTo(FnAlphabet, MaxFnLen)

RECURSIVE DecimalString(_)
DecimalString(n) ==
    IF n < 10 THEN <<Digits[n + 1]>>
    ELSE DecimalString(n \div 10) \o <<Digits[(n % 10) + 1]>>

FnChars ==
    {Null, Str(<<>>), Str(<<"x">>)} \cup {Str(DecimalString(n)) : n \in 0..MaxLimit}

\* the header example, lines 4-5 and 167-168
HeadlineLength == Str(<<"3", "0">>)

\* a text whose first word begins with a letter of special casing
SharpSText == <<SharpS, "a", "a">>

(***************************************************************************)
(* The element                                                             *)
(***************************************************************************)
VARIABLES
    variant,            \* "span" (lines 178-308) or "auto" (lines 16-160)
    sameTextQueues,     \* host: does writing the text already shown queue a record
    phase,              \* "constructed", "connected", "disconnected"
    attributes,         \* [textlength, apstyle]: Null (absent) or Str(value)
    textContent,        \* this.textContent
    originalAttributes, \* span: [text |-> Undefined] is the {} of line 205
    props,              \* auto: this.props
    observing,          \* the MutationObserver is attached
    records,            \* mutation records queued for the observer
    threw,              \* the handler that ran last raised an exception
    mountText,          \* history: Undefined before the first connectedCallback,
                        \* then Str(the text it captured), and Null once a
                        \* script has replaced the content or the text since
    remounted,          \* history: connectedCallback ran more than once
    renders,            \* history, span: parity of the number of handler runs
                        \* that wrote textContent
    call                \* a function called on its own: [fn, text, chars, result]

vars == <<variant, sameTextQueues, renders, phase, attributes, textContent,
          originalAttributes, props, observing, records, threw, mountText,
          remounted, renders, call>>

hist == <<mountText, remounted>>

getAttribute(attrs, name) == attrs[name]
hasAttribute(attrs, name) == attrs[name] # Null

\* the record the host queues when `textContent = value` replaces the children:
\* none when nothing is removed and nothing inserted; a host that skips the
\* write of the text already shown (sameTextQueues = FALSE) queues none either
ChildListRecords(old, new) ==
    IF observing /\ (old # <<>> \/ new # <<>>) /\ (sameTextQueues \/ old # new)
    THEN <<"childList">> ELSE <<>>

AttributeRecords(name) == IF observing THEN <<name>> ELSE <<>>

\* the textContent setter: null and undefined are the empty string
ToTextContent(value) == IF value.t = "string" THEN value.v ELSE <<>>

\* the state a handler works on: e is the cache (originalAttributes or props),
\* tc the text content, out the records its writes queue, abort an exception
Work(e) ==
    [e |-> e, tc |-> textContent, out |-> <<>>, abort |-> FALSE, wrote |-> FALSE]

WriteText(w, value) ==
    [w EXCEPT !.tc = ToTextContent(value),
              !.wrote = TRUE,
              !.out = w.out \o ChildListRecords(w.tc, ToTextContent(value))]

(***************************************************************************)
(* Span variant: handlers                                                  *)
(***************************************************************************)
\* the value updateTextContent(text) assigns to textContent, lines 268-271
\* (a const of the source is a value computed once: the one element of a
\* set, here and in the definitions below)
Render_span(text, attrs) ==
    CHOOSE value \in
        {IF trimmedText = TypeError THEN TypeError
         ELSE IF hasAttribute(attrs, "apstyle")
              THEN apStyleTitleCase_span(trimmedText)
              ELSE trimmedText :
             trimmedText \in
                 {truncateAfterWord_span(text, getAttribute(attrs, "textlength"))}} :
        TRUE

\* updateTextContent(text), lines 267-272
updateTextContent_span(w, text, attrs) ==
    CHOOSE after \in
        {IF value = TypeError THEN [w EXCEPT !.abort = TRUE]
         ELSE WriteText(w, value) :
             value \in {Render_span(text, attrs)}} : TRUE

\* attributeChangedCallback(property, oldValue, newValue), lines 222-228
attributeChangedCallback_span(w, property, oldValue, newValue, attrs) ==
    IF ~ToBoolean(oldValue) \/ oldValue = newValue THEN w
    ELSE IF property = "textlength"
         THEN updateTextContent_span(w, w.e.text, attrs)
         ELSE w

\* the body of mutations.forEach, lines 232-255
onMutation_span(w, mutation, attrs) ==
    IF mutation = "childList"
    THEN IF w.e.text.t # "string" THEN [w EXCEPT !.abort = TRUE]
         ELSE LET newtext == slice(toLowerCase(w.tc), 0, -3)
              IN  IF ~includes(toLowerCase(w.e.text.v), newtext)
                  THEN updateTextContent_span(
                           [w EXCEPT !.e = [text |-> Str(w.tc)]], Str(w.tc), attrs)
                  ELSE updateTextContent_span(w, w.e.text, attrs)
    ELSE IF mutation = "apstyle"
         THEN updateTextContent_span(w, w.e.text, attrs)
         ELSE w

RECURSIVE forEach_span(_, _, _)
forEach_span(w, mutations, attrs) ==
    IF Len(mutations) = 0 \/ w.abort THEN w
    ELSE CHOOSE after \in
             {forEach_span(next, Tail(mutations), attrs) :
                  next \in {onMutation_span(w, Head(mutations), attrs)}} : TRUE

(***************************************************************************)
(* Autonomous variant: handlers                                            *)
(***************************************************************************)
\* the value updateTextContent(text) assigns to textContent, lines 31-34
Render_auto(text, p) ==
    LET trimmedText == truncateAfterWord_auto(text, p.textlength)
    IN  IF p.apstyle THEN apStyleTitleCase_auto(trimmedText) ELSE trimmedText

\* this.updateTextContent, lines 29-35
updateTextContent_auto(w, text) ==
    IF ~ToBoolean(text) THEN w ELSE WriteText(w, Render_auto(text, w.e))

\* attributeChangedCallback(property, oldValue, newValue), lines 76-81
attributeChangedCallback_auto(w, property, newValue) ==
    IF property = "textlength"
    THEN LET w1 == [w EXCEPT !.e.textlength = newValue]
         IN  updateTextContent_auto(w1, w1.e.text)
    ELSE w

\* the body of mutations.forEach, lines 84-113
onMutation_auto(w, mutation, attrs) ==
    IF mutation = "childList"
    THEN LET newtext == slice(toLowerCase(w.tc), 0, -3)
         IN  IF ~includes(toLowerCase(w.e.text.v), newtext)
             THEN LET w1 == [w EXCEPT !.e.text = Str(w.tc)]
                  IN  updateTextContent_auto(w1, w1.e.text)
             ELSE w
    ELSE IF mutation = "apstyle"
         THEN LET w1 == [w EXCEPT !.e.apstyle = hasAttribute(attrs, "apstyle")]
              IN  updateTextContent_auto(w1, w1.e.text)
         ELSE w

RECURSIVE forEach_auto(_, _, _)
forEach_auto(w, mutations, attrs) ==
    IF Len(mutations) = 0 THEN w
    ELSE forEach_auto(onMutation_auto(w, Head(mutations), attrs),
                      Tail(mutations), attrs)

(***************************************************************************)
(* Initial state: the element as its constructor leaves it, with the       *)
(* content and the attributes the author wrote.  The upgrade's              *)
(* attributeChangedCallback(textlength, null, value) has run: it returns    *)
(* early in the span variant (line 223) and caches the value in the         *)
(* autonomous variant (line 78; its updateTextContent("") does nothing).    *)
(***************************************************************************)
NoCall == [fn |-> "none", text |-> <<>>, chars |-> Null, result |-> Undefined]

Init ==
    /\ call = NoCall
    /\ variant \in {"span", "auto"}
    /\ sameTextQueues \in BOOLEAN
    /\ phase = "constructed"
    /\ \/ /\ textContent \in Texts
          /\ attributes \in [textlength : {Null} \cup TextLengths,
                             apstyle : {Null, Str(<<>>)}]
       \/ /\ textContent = Headline
          /\ attributes \in [textlength : {HeadlineLength},
                             apstyle : {Null, Str(<<>>)}]
       \/ /\ textContent = SharpSText
          /\ attributes \in [textlength : {Null},
                             apstyle : {Null, Str(<<>>)}]
    /\ originalAttributes = [text |-> Undefined]
    /\ props = [text |-> Str(<<>>),
                textlength |-> IF variant = "auto" /\ attributes.textlength # Null
                               THEN attributes.textlength ELSE Str(<<>>),
                apstyle |-> FALSE]
    /\ observing = TRUE
    /\ records = <<>>
    /\ threw = FALSE
    /\ mountText = Undefined
    /\ remounted = FALSE
    /\ renders = 0

\* the first connectedCallback records the text it captures
Edited == mountText' = IF mountText = Undefined THEN Undefined ELSE Null

Mounted ==
    /\ phase' = "connected"
    /\ mountText' = IF phase = "constructed" THEN Str(textContent) ELSE mountText
    /\ remounted' = (remounted \/ phase = "disconnected")

(***************************************************************************)
(* Span variant: actions                                                   *)
(***************************************************************************)
\* the effect of a span handler that ended in state w
Commit_span(w, queued) ==
    /\ originalAttributes' = w.e
    /\ textContent' = w.tc
    /\ records' = queued \o w.out
    /\ threw' = w.abort
    /\ renders' = IF w.wrote THEN 1 - renders ELSE renders
    /\ UNCHANGED <<call, variant, sameTextQueues, props, observing>>

\* connectedCallback, lines 258-265
connectedCallback_span ==
    /\ variant = "span"
    /\ phase # "connected"
    /\ Len(records) < MaxPending
    /\ \E w0 \in {Work([text |-> Str(textContent)])} :
       \E w \in {updateTextContent_span(w0, w0.e.text, attributes)} :
           Commit_span(w, records)
    /\ Mounted
    /\ UNCHANGED attributes

\* the element is removed from the document; the class has no
\* disconnectedCallback and its observer stays attached
disconnected_span ==
    /\ variant = "span"
    /\ phase = "connected"
    /\ phase' = "disconnected"
    /\ threw' = FALSE
    /\ UNCHANGED <<call, variant, sameTextQueues, renders, attributes, textContent,
                   originalAttributes, props, observing, records, hist>>

\* setAttribute(name, value) / removeAttribute(name) (newValue = Null): the
\* host queues the attributes record and runs attributeChangedCallback
\* before it returns
ChangeAttribute_span(name, newValue) ==
    /\ variant = "span"
    /\ Len(records) < MaxPending
    /\ attributes' = [attributes EXCEPT ![name] = newValue]
    /\ \E w \in {attributeChangedCallback_span(Work(originalAttributes), name,
                       attributes[name], newValue, attributes')} :
           Commit_span(w, records \o AttributeRecords(name))
    /\ UNCHANGED <<phase, hist>>

setAttribute_span ==
    \/ \E value \in TextLengths : ChangeAttribute_span("textlength", value)
    \/ ChangeAttribute_span("apstyle", Str(<<>>))

removeAttribute_span ==
    \E name \in {"textlength", "apstyle"} :
        /\ hasAttribute(attributes, name)
        /\ ChangeAttribute_span(name, Null)

\* a script or the author replaces the content: element.textContent = text
editContent_span ==
    /\ variant = "span"
    /\ Len(records) < MaxPending
    /\ \E text \in EditTexts :
           /\ textContent' = text
           /\ records' = records \o ChildListRecords(textContent, text)
    /\ Edited
    /\ threw' = FALSE
    /\ UNCHANGED <<call, variant, sameTextQueues, renders, phase, attributes,
                   originalAttributes, props, observing, remounted>>

\* mutationObserverCallback(mutations), lines 231-256: the host hands over
\* every queued record in one call
mutationObserverCallback_span ==
    /\ variant = "span"
    /\ Len(records) > 0
    /\ \E w \in {forEach_span(Work(originalAttributes), records, attributes)} :
           Commit_span(w, <<>>)
    /\ UNCHANGED <<phase, attributes, hist>>

(***************************************************************************)
(* Autonomous variant: actions                                             *)
(***************************************************************************)
Commit_auto(w, queued) ==
    /\ props' = w.e
    /\ textContent' = w.tc
    /\ records' = queued \o w.out
    /\ threw' = FALSE
    /\ UNCHANGED <<call, variant, sameTextQueues, renders, originalAttributes>>

\* connectedCallback, lines 116-123
connectedCallback_auto ==
    /\ variant = "auto"
    /\ phase # "connected"
    /\ Len(records) < MaxPending
    /\ LET w0 == Work([text |-> Str(textContent),
                       textlength |-> getAttribute(attributes, "textlength"),
                       apstyle |-> hasAttribute(attributes, "apstyle")])
       IN  Commit_auto(updateTextContent_auto(w0, w0.e.text), records)
    /\ Mounted
    /\ UNCHANGED <<attributes, observing>>

\* disconnectedCallback, lines 125-127: disconnect() also drops the queue
disconnectedCallback_auto ==
    /\ variant = "auto"
    /\ phase = "connected"
    /\ phase' = "disconnected"
    /\ observing' = FALSE
    /\ records' = <<>>
    /\ UNCHANGED <<call, variant, sameTextQueues, renders, attributes, textContent,
                   originalAttributes, props, threw, hist>>

ChangeAttribute_auto(name, newValue) ==
    /\ variant = "auto"
    /\ Len(records) < MaxPending
    /\ attributes' = [attributes EXCEPT ![name] = newValue]
    /\ Commit_auto(attributeChangedCallback_auto(Work(props), name, newValue),
                   records \o AttributeRecords(name))
    /\ UNCHANGED <<phase, observing, hist>>

setAttribute_auto ==
    \/ \E value \in TextLengths : ChangeAttribute_auto("textlength", value)
    \/ ChangeAttribute_auto("apstyle", Str(<<>>))

removeAttribute_auto ==
    \E name \in {"textlength", "apstyle"} :
        /\ hasAttribute(attributes, name)
        /\ ChangeAttribute_auto(name, Null)

\* set text(value), lines 56-59
set_text ==
    /\ variant = "auto"
    /\ Len(records) < MaxPending
    /\ \E value \in EditTexts :
           LET w == [Work(props) EXCEPT !.e.text = Str(value)]
           IN  Commit_auto(updateTextContent_auto(w, Str(value)), records)
    /\ Edited
    /\ UNCHANGED <<phase, attributes, observing, remounted>>

\* set textlength(value), lines 63-66: a script may hand over a number too
set_textlength ==
    /\ variant = "auto"
    /\ Len(records) < MaxPending
    /\ \E value \in {Num(4), Null} :
           LET w == [Work(props) EXCEPT !.e.textlength = value]
           IN  Commit_auto(updateTextContent_auto(w, w.e.text), records)
    /\ UNCHANGED <<phase, attributes, observing, hist>>

\* set apstyle(value), lines 70-73
set_apstyle ==
    /\ variant = "auto"
    /\ Len(records) < MaxPending
    /\ \E value \in {Str(<<>>), Num(1)} :
           LET w == [Work(props) EXCEPT !.e.apstyle = ToBoolean(value)]
           IN  Commit_auto(updateTextContent_auto(w, w.e.text), records)
    /\ UNCHANGED <<phase, attributes, observing, hist>>

editContent_auto ==
    /\ variant = "auto"
    /\ Len(records) < MaxPending
    /\ \E text \in EditTexts :
           /\ textContent' = text
           /\ records' = records \o ChildListRecords(textContent, text)
    /\ Edited
    /\ threw' = FALSE
    /\ UNCHANGED <<call, variant, sameTextQueues, renders, phase, attributes,
                   originalAttributes, props, observing, remounted>>

\* mutationObserverCallback(mutations), lines 83-114
mutationObserverCallback_auto ==
    /\ variant = "auto"
    /\ Len(records) > 0
    /\ Commit_auto(forEach_auto(Work(props), records, attributes), <<>>)
    /\ UNCHANGED <<phase, attributes, observing, hist>>

NextSpan ==
    \/ connectedCallback_span
    \/ disconnected_span
    \/ setAttribute_span
    \/ removeAttribute_span
    \/ editContent_span
    \/ mutationObserverCallback_span

NextAuto ==
    \/ connectedCallback_auto
    \/ disconnectedCallback_auto
    \/ setAttribute_auto
    \/ removeAttribute_auto
    \/ set_text
    \/ set_textlength
    \/ set_apstyle
    \/ editContent_auto
    \/ mutationObserverCallback_auto

Next == NextSpan \/ NextAuto

\* both variants
Spec == Init /\ [][Next]_vars

\* the span variant alone, and the autonomous variant alone
InitSpan == Init /\ variant = "span"
InitAuto == Init /\ variant = "auto"
SpecSpan == InitSpan /\ [][NextSpan]_vars
SpecAuto == InitAuto /\ [][NextAuto]_vars

\* the span variant on a host that queues a childList record for every write
\* of textContent, mounted with a text of up to MaxLen characters; the host
\* delivers the records it has queued
InitDelivered == InitSpan /\ sameTextQueues = TRUE /\ Len(textContent) <= MaxLen
SpecSpanLive ==
    InitDelivered /\ [][NextSpan]_vars /\ WF_vars(mutationObserverCallback_span)

(***************************************************************************)
(* The functions called on their own                                       *)
(***************************************************************************)
InitFn ==
    /\ \E text \in FnTexts, chars \in FnChars :
           call = [fn |-> "input", text |-> text, chars |-> chars,
                   result |-> Undefined]
    /\ variant = "span"
    /\ sameTextQueues = TRUE
    /\ phase = "constructed"
    /\ attributes = [textlength |-> Null, apstyle |-> Null]
    /\ textContent = <<>>
    /\ originalAttributes = [text |-> Undefined]
    /\ props = [text |-> Str(<<>>), textlength |-> Str(<<>>), apstyle |-> FALSE]
    /\ observing = TRUE
    /\ records = <<>>
    /\ threw = FALSE
    /\ mountText = Undefined
    /\ remounted = FALSE
    /\ renders = 0

Returns(fn, result) ==
    /\ call.fn = "input"
    /\ call' = [call EXCEPT !.fn = fn, !.result = result]
    /\ UNCHANGED <<variant, sameTextQueues, renders, phase, attributes, textContent,
                   originalAttributes, props, observing, records, threw,
                   mountText, remounted>>

call_truncateAfterWord_span ==
    Returns("truncateAfterWord_span",
            truncateAfterWord_span(Str(call.text), call.chars))

call_truncateAfterWord_auto ==
    Returns("truncateAfterWord_auto",
            truncateAfterWord_auto(Str(call.text), call.chars))

\* the title case takes the text alone
call_apStyleTitleCase_span ==
    /\ call.chars = Null
    /\ Returns("apStyleTitleCase_span", apStyleTitleCase_span(Str(call.text)))

call_apStyleTitleCase_auto ==
    /\ call.chars = Null
    /\ Returns("apStyleTitleCase_auto", apStyleTitleCase_auto(Str(call.text)))

NextFn ==
    \/ call_truncateAfterWord_span
    \/ call_truncateAfterWord_auto
    \/ call_apStyleTitleCase_span
    \/ call_apStyleTitleCase_auto

SpecFn == InitFn /\ [][NextFn]_vars

TypeOK ==
    /\ phase \in {"constructed", "connected", "disconnected"}
    /\ Len(records) <= MaxPending + 1
    /\ originalAttributes.text.t \in {"undefined", "string"}
    /\ props.text.t = "string"

(***************************************************************************)
(* Properties                                                              *)
(***************************************************************************)
\* SourceText: the text the element caches
Source == IF variant = "span" THEN originalAttributes.text ELSE props.text

HeadlineAttributes == [textlength |-> HeadlineLength, apstyle |-> Str(<<>>)]

\* "Everything You Need to Know" followed by U+2026
HeadlineSpanDisplay == <<
    "E","v","e","r","y","t","h","i","n","g"," ","Y","o","u"," ","N","e","e",
    "d"," ","t","o"," ","K","n","o","w","U+2026" >>

\* "Everything You Need to Know..."
HeadlineAutoExample == <<
    "E","v","e","r","y","t","h","i","n","g"," ","Y","o","u"," ","N","e","e",
    "d"," ","t","o"," ","K","n","o","w",".",".","." >>

\* C1: span variant: mounting the headline with textlength="30" and apstyle
\* renders exactly "Everything You Need to Know" + U+2026, and the observer
\* callback that follows leaves that text in place.
C1_SpanHeadline ==
    [][(/\ attributes = HeadlineAttributes
        /\ \/ /\ connectedCallback_span
              /\ phase = "constructed"
              /\ textContent = Headline
           \/ /\ mutationObserverCallback_span
              /\ phase = "connected"
              /\ ~remounted
              /\ mountText = Str(Headline)
              /\ originalAttributes.text = Str(Headline))
       => textContent' = HeadlineSpanDisplay]_vars

C1_Witness ==
    /\ variant = "span"
    /\ phase = "connected"
    /\ mountText = Str(Headline)
    /\ originalAttributes.text = Str(Headline)
    /\ attributes = HeadlineAttributes
    /\ textContent = HeadlineSpanDisplay

\* C2: autonomous variant: as the header example (lines 4-5) states, mounting
\* the headline with apstyle and textlength="30" displays
\* "Everything You Need to Know...".
C2_AutoHeadline ==
    [][(/\ connectedCallback_auto
        /\ phase = "constructed"
        /\ textContent = Headline
        /\ attributes = HeadlineAttributes)
       => textContent' = HeadlineAutoExample]_vars

EndsWith(s, suffix) ==
    Len(s) >= Len(suffix) /\ SubSeq(s, Len(s) - Len(suffix) + 1, Len(s)) = suffix

\* the result of truncateAfterWord (span variant) for the limit L given as its
\* decimal string has at most L characters and ends with the placeholder
WithinLimit(L) ==
    (/\ call.fn = "truncateAfterWord_span"
     /\ call.chars = Str(DecimalString(L))
     /\ Len(call.text) >= L)
    => /\ call.result.t = "string"
       /\ Len(call.result.v) <= L
       /\ EndsWith(call.result.v, placeholder)

\* C3 as stated: for every text and every non-negative integer limit L given
\* as its string encoding, with text.length >= L, truncateAfterWord(text, L)
\* (span variant) has length <= L and ends with the placeholder.
C3_EveryLimit == \A L \in 0..MaxLimit : WithinLimit(L)

\* C3 as amended: the same for every limit L >= 1.
C3_PositiveLimit == \A L \in 1..MaxLimit : WithinLimit(L)

C3_Witness ==
    /\ call.fn = "truncateAfterWord_span"
    /\ call.chars = Str(<<"4">>)
    /\ Len(call.text) >= 4
    /\ call.result = Str(<<"a", "i", "U+2026">>)

\* C4: with textlength missing, empty or not a valid integer, truncation is
\* the identity: mounting renders the untruncated text (title-cased if
\* apstyle is present), with no placeholder added.
C4_NoLimitIsIdentity ==
    [][(/\ connectedCallback_span \/ connectedCallback_auto
        /\ attributes.textlength \in {Null, Str(<<>>), Str(<<"x">>)})
       => textContent' =
              IF ~hasAttribute(attributes, "apstyle") THEN textContent
              ELSE IF variant = "span"
                   THEN apStyleTitleCase_span(Str(textContent)).v
                   ELSE apStyleTitleCase_auto(Str(textContent)).v]_vars

\* words as the title-case rules count them: maximal runs of characters that
\* are neither white space nor splitter punctuation
IsSeparator(c) == c \in WhiteSpace \cup SplitterPunctuation

WordStarts(text) ==
    {i \in 1..Len(text) :
        ~IsSeparator(text[i]) /\ (i = 1 \/ IsSeparator(text[i - 1]))}

WordEndAt(text, i) ==
    CHOOSE e \in i..Len(text) :
        /\ \A q \in i..e : ~IsSeparator(text[q])
        /\ e = Len(text) \/ IsSeparator(text[e + 1])

FirstOf(S) == CHOOSE i \in S : \A j \in S : i <= j
LastOf(S) == CHOOSE i \in S : \A j \in S : j <= i

\* C5: apStyleTitleCase (span variant) capitalizes the first letter of the
\* first word and of the last word of every text, stop-words included, also
\* when the text begins or ends with a separator.
C5_FirstAndLastCapitalized ==
    (call.fn = "apStyleTitleCase_span" /\ WordStarts(call.text) # {})
    => /\ Len(call.result.v) = Len(call.text)
       /\ \A p \in {FirstOf(WordStarts(call.text)), LastOf(WordStarts(call.text))} :
              call.result.v[p] = toUpperCaseChar(call.text[p])

StopWords == {defaults[i] : i \in 1..Len(defaults)}

\* C6: every interior word w (neither first nor last) of the input of
\* apStyleTitleCase (span variant) comes out as lowercase(w) if and only if
\* lowercase(w) is one of the 17 stop-words; every other interior word comes
\* out with its first letter capitalized.
C6_InteriorWords ==
    call.fn = "apStyleTitleCase_span"
    => /\ Len(call.result.v) = Len(call.text)
       /\ LET starts == WordStarts(call.text)
          IN  \A p \in {q \in starts : \E a, b \in starts : a < q /\ q < b} :
                  LET w == SubSeq(call.text, p, WordEndAt(call.text, p))
                      out == SubSeq(call.result.v, p, WordEndAt(call.text, p))
                  IN  /\ (out = toLowerCase(w)) <=> (toLowerCase(w) \in StopWords)
                      /\ toLowerCase(w) \notin StopWords => out = capitalize(w)

\* C7: autonomous variant: on a mounted, observed element with every queued
\* notification processed, the text shown is Render(props.text,
\* props.textlength, props.apstyle).
C7_DisplayIsRender ==
    (variant = "auto" /\ phase = "connected" /\ observing /\ records = <<>>)
    => textContent = ToTextContent(Render_auto(props.text, props))

\* the source text is the one captured at the first mount and no script has
\* replaced the content since
Untouched ==
    /\ phase = "connected"
    /\ ~remounted
    /\ mountText.t = "string"
    /\ Source = mountText

\* C8: span variant: every change of the textlength attribute on a mounted
\* element with untouched source text (value to value, absent to value, value
\* to absent) leaves originalAttributes.text as it is and writes
\* Render(SourceText, new textlength, StyleEnabled) into the element.
C8_LimitChangeRerenders ==
    [][(/\ setAttribute_span \/ removeAttribute_span
        /\ attributes'.textlength # attributes.textlength
        /\ Untouched)
       => /\ originalAttributes' = originalAttributes
          /\ textContent' =
                 ToTextContent(Render_span(originalAttributes.text, attributes'))]_vars

\* Render(S, LengthLimit, StyleEnabled) with the options the element holds
Render(text) ==
    IF variant = "span" THEN ToTextContent(Render_span(text, attributes))
    ELSE ToTextContent(Render_auto(text, props))

\* C9: when the observer of a mounted element processes the notification of
\* a content T that is not a case-insensitive substring of the SourceText S
\* and is not the element's own render of S, whatever the length of T, it
\* stores T as SourceText and the element shows the render of T.
C9_UnrelatedTextIsStored ==
    [][(/\ mutationObserverCallback_span \/ mutationObserverCallback_auto
        /\ phase = "connected"
        /\ records = <<"childList">>
        /\ Source.t = "string"
        /\ textContent # Render(Source)
        /\ ~includes(toLowerCase(Source.v), toLowerCase(textContent)))
       => /\ Source' = Str(textContent)
          /\ textContent' = Render(Str(textContent))']_vars

\* C10: when the observer processes the notification caused by the element's
\* own write of Render(S, LengthLimit, StyleEnabled), the cached SourceText
\* is still S; and as long as no script replaces the content, SourceText is
\* the text captured at mount.
C10_OwnRenderIsNotCaptured ==
    /\ [][(/\ mutationObserverCallback_span \/ mutationObserverCallback_auto
           /\ records = <<"childList">>
           /\ Source.t = "string"
           /\ textContent = Render(Source))
          => Source' = Source]_vars
    /\ [](phase = "connected" /\ ~remounted /\ mountText.t = "string"
          => Source = mountText)

\* the limit is unset (absent or empty attribute) or the text is shorter
\* than the limit
Unlimited(text, chars) ==
    \/ chars \in {Null, Str(<<>>)}
    \/ LessThan(Num(Len(text)), ToNumber(chars))

\* result is a prefix of text followed by the placeholder
IsCutOf(result, text) ==
    \E k \in 0..Len(text) : result = SubSeq(text, 1, k) \o placeholder

\* C11: truncateAfterWord (span variant) returns the text unchanged when the
\* limit is unset or text.length < limit, and in every other case, a text as
\* long as the limit included, a prefix of the text followed by the
\* placeholder, which differs from the text (unless the text is the
\* placeholder itself).
C11_UnchangedExactlyWhenUnlimited ==
    call.fn = "truncateAfterWord_span"
    => IF Unlimited(call.text, call.chars)
       THEN call.result = Str(call.text)
       ELSE /\ call.result.t = "string"
            /\ IsCutOf(call.result.v, call.text)
            /\ call.text # placeholder => call.result.v # call.text

C11_Witness ==
    /\ call.fn = "truncateAfterWord_span"
    /\ call.chars = Str(<<"4">>)
    /\ call.text = <<"a", " ", "i", "x">>
    /\ call.result = Str(<<"a", "U+2026">>)

\* C12: whenever truncateAfterWord (span variant) truncates for the limit L,
\* the prefix it keeps is text[0..k) where k is the index of the last space
\* within the first L - placeholder.length characters of the text, and it is
\* empty when those characters hold no space: the result is never cut inside
\* a word.
C12_NeverSplitsAWord ==
    \A L \in 0..MaxLimit :
        (/\ call.fn = "truncateAfterWord_span"
         /\ call.chars = Str(DecimalString(L))
         /\ Len(call.text) >= L)
        => LET kept == Max(L - Len(placeholder), 0)
               spaces == {k \in 0..(Min(kept, Len(call.text)) - 1) :
                              call.text[k + 1] = " "}
           IN  IF spaces = {} THEN call.result = Str(placeholder)
               ELSE LET k == CHOOSE k \in spaces : \A j \in spaces : j <= k
                    IN  /\ call.text[k + 1] = " "
                        /\ call.result = Str(SubSeq(call.text, 1, k) \o placeholder)

C12_Witness ==
    /\ call.fn = "truncateAfterWord_span"
    /\ call.chars = Str(<<"5">>)
    /\ call.text = <<"a", "i", " ", "a", "x">>
    /\ call.result = Str(<<"a", "i", "U+2026">>)

\* C13: span variant: no handler raises an exception, whatever the sequence
\* of operations, those on an element constructed but not yet mounted
\* included.
C13_NoException == variant = "span" => ~threw

\* C14: re-mounting an element whose SourceText is the text captured at the
\* first mount (no script has replaced the content) leaves SourceText as it
\* is.
C14_SourceSurvivesRemount ==
    [][(/\ connectedCallback_span \/ connectedCallback_auto
        /\ phase = "disconnected"
        /\ mountText.t = "string"
        /\ Source = mountText)
       => Source' = mountText]_vars

\* C15: autonomous variant: on a mounted, observed element with every queued
\* notification processed, props.apstyle is true exactly when the apstyle
\* attribute is present, and props.textlength is the value of the textlength
\* attribute.
C15_OptionsReflectAttributes ==
    (variant = "auto" /\ phase = "connected" /\ observing /\ records = <<>>)
    => /\ props.apstyle = hasAttribute(attributes, "apstyle")
       /\ props.textlength = getAttribute(attributes, "textlength")

\* C16: apStyleTitleCase (span variant) changes the case of letters only: its
\* result has the length of the text and the same lower-case form, so every
\* separator stands where it stood (texts of ASCII characters).
C16_CaseOnly ==
    call.fn = "apStyleTitleCase_span"
    => /\ call.result.t = "string"
       /\ Len(call.result.v) = Len(call.text)
       /\ toLowerCase(call.result.v) = toLowerCase(call.text)

C16_Witness ==
    /\ call.fn = "apStyleTitleCase_span"
    /\ call.text = <<"a", "?", " ", "i", "x">>
    /\ call.result = Str(<<"A", "?", " ", "I", "x">>)

\* C17: for every text in lower case, apStyleTitleCase (span variant) applied
\* to its own result returns that result.
C17_Idempotent ==
    (call.fn = "apStyleTitleCase_span" /\ call.text = toLowerCase(call.text))
    => apStyleTitleCase_span(call.result) = call.result

C17_Witness ==
    /\ call.fn = "apStyleTitleCase_span"
    /\ call.text = <<"x", " ", "a", " ", "x">>
    /\ call.result = Str(<<"X", " ", "a", " ", "X">>)
    /\ apStyleTitleCase_span(call.result) = call.result

\* C18: span variant, every write of textContent queued for the observer:
\* whenever a notification is pending, the element reaches a state in which
\* none is.
C18_ReachesQuiescence == (records # <<>>) ~> (records = <<>>)

====
